---- MODULE Spec2Model ----
(***************************************************************************)
(* Model of the Apple Log LUT generator (main.go): the per-sample colour   *)
(* pipeline, the grid loop of generateLUT, processConfigFile and the       *)
(* directory walk of main.                                                 *)
(*                                                                         *)
(* float64 values are modelled in fixed point: a number is an integer      *)
(* count of millionths (the resolution of the "%.6f" output), every        *)
(* arithmetic operation rounds to the nearest millionth, and NaN is a      *)
(* separate value that every operation propagates and every comparison     *)
(* rejects, as IEEE 754 does.                                              *)
(***************************************************************************)
EXTENDS Integers, Sequences, FiniteSets, TLC

(***************************************************************************)
(* float64                                                                 *)
(***************************************************************************)
Kilo == 10 * 10 * 10

One == Kilo * Kilo

NaN == [nan |-> TRUE, u |-> 0]

Num(u) == [nan |-> FALSE, u |-> u]

\* float64(n) for an int n
FromInt(n) == Num(n * One)

\* floor(a*b / One) without forming a*b (a = a1*Kilo + a0, b = b1*Kilo + b0)
MulShift(a, b, half) ==
    LET a1 == a \div Kilo
        a0 == a % Kilo
        b1 == b \div Kilo
        b0 == b % Kilo
        m  == a1 * b0 + a0 * b1
    IN  a1 * b1 + (m \div Kilo) + (((m % Kilo) * Kilo + a0 * b0 + half) \div One)

\* a*b rounded to the nearest millionth
MulMicro(a, b) == MulShift(a, b, One \div 2)

FMul(a, b) == IF a.nan \/ b.nan THEN NaN ELSE Num(MulMicro(a.u, b.u))

FAdd(a, b) == IF a.nan \/ b.nan THEN NaN ELSE Num(a.u + b.u)

FSub(a, b) == IF a.nan \/ b.nan THEN NaN ELSE Num(a.u - b.u)

\* a < b and a > b: false as soon as one side is NaN
FLt(a, b) == ~a.nan /\ ~b.nan /\ a.u < b.u

FGt(a, b) == ~a.nan /\ ~b.nan /\ a.u > b.u

\* the builtin min: NaN if either argument is NaN
FMin(a, b) == IF a.nan \/ b.nan THEN NaN ELSE IF a.u < b.u THEN a ELSE b

\* n/d for n >= 0, d > 0, rounded to the nearest millionth, by long division
RECURSIVE LongDiv(_, _, _, _)
LongDiv(q, r, d, digits) ==
    IF digits = 0 THEN q + (IF 2 * r >= d THEN 1 ELSE 0)
    ELSE LongDiv(q * 10 + ((r * 10) \div d), (r * 10) % d, d, digits - 1)

\* a / b; 0/0 is NaN (a nonzero a over 0 is an infinity, which generateLUT
\* cannot produce: its numerator is at most its denominator)
FDiv(a, b) ==
    IF a.nan \/ b.nan \/ b.u = 0 THEN NaN
    ELSE LET n == IF a.u < 0 THEN -a.u ELSE a.u
             d == IF b.u < 0 THEN -b.u ELSE b.u
             q == LongDiv(n \div d, n % d, d, 6)
         IN  Num(IF (a.u < 0) = (b.u < 0) THEN q ELSE -q)

\* r*r <= x*One, compared without forming either product
SqLeq(r, x) ==
    LET hi == MulShift(r, r, 0)
        r1 == r \div Kilo
        r0 == r % Kilo
        lo == (((2 * r1 * r0) % Kilo) * Kilo + r0 * r0) % One
    IN  hi < x \/ (hi = x /\ lo = 0)

\* the largest r in lo..hi with r*r <= x*One
RECURSIVE SqrtSearch(_, _, _)
SqrtSearch(x, lo, hi) ==
    IF lo = hi THEN lo
    ELSE LET mid == (lo + hi + 1) \div 2
         IN  IF SqLeq(mid, x) THEN SqrtSearch(x, mid, hi)
             ELSE SqrtSearch(x, lo, mid - 1)

\* sqrt of x millionths, in millionths, for 0 <= x (0 and 1 are their own roots)
SqrtMicro(x) ==
    IF x = 0 \/ x = One THEN x
    ELSE SqrtSearch(x, 0, IF x < One THEN One ELSE x)

\* x^(2^-n)
RECURSIVE Root2n(_, _)
Root2n(x, n) == IF n = 0 \/ x = 0 \/ x = One THEN x ELSE Root2n(SqrtMicro(x), n - 1)

\* math.Pow(v, 1.5) = v * sqrt(v); NaN for v < 0 or NaN
Pow15(v) ==
    IF v.nan \/ v.u < 0 THEN NaN
    ELSE Num(MulMicro(v.u, SqrtMicro(v.u)))

\* the binary digits of 0.45 = 0.0111001100110011..., to 2^-16
Bits045 == <<2, 3, 4, 7, 8, 11, 12, 15, 16>>

RECURSIVE PowBits(_, _, _, _)
PowBits(x, n, idx, acc) ==
    IF idx > Len(Bits045) THEN acc
    ELSE LET y == Root2n(x, Bits045[idx] - n)
         IN  PowBits(y, Bits045[idx], idx + 1, MulMicro(acc, y))

\* math.Pow(v, 0.45): the product of the roots v^(2^-n) over the binary
\* digits of 0.45; NaN for v < 0 or NaN; exact at 0 and at 1
Pow045(v) ==
    IF v.nan \/ v.u < 0 THEN NaN
    ELSE Num(PowBits(v.u, 0, 1, One))

(***************************************************************************)
(* fmt.Sprintf                                                             *)
(***************************************************************************)
Digits == <<"0", "1", "2", "3", "4", "5", "6", "7", "8", "9">>

\* n >= 0 in decimal, at least `width` digits
RECURSIVE Decimal(_, _)
Decimal(n, width) ==
    IF n < 10 /\ width <= 1 THEN Digits[n + 1]
    ELSE Decimal(n \div 10, width - 1) \o Digits[(n % 10) + 1]

\* "%d"
FormatInt(n) == IF n < 0 THEN "-" \o Decimal(-n, 1) ELSE Decimal(n, 1)

\* "%.6f"
FormatFloat(f) ==
    IF f.nan THEN "NaN"
    ELSE LET a == IF f.u < 0 THEN -f.u ELSE f.u
         IN  (IF f.u < 0 THEN "-" ELSE "")
             \o Decimal(a \div One, 1) \o "." \o Decimal(a % One, 6)

(***************************************************************************)
(* Config and the colour pipeline                                          *)
(***************************************************************************)
\* strings.ToLower, on a string held as its sequence of characters
UpperLetters == <<"A", "B", "C", "D", "E", "F", "G", "H", "I", "J", "K", "L", "M",
                  "N", "O", "P", "Q", "R", "S", "T", "U", "V", "W", "X", "Y", "Z">>

LowerLetters == <<"a", "b", "c", "d", "e", "f", "g", "h", "i", "j", "k", "l", "m",
                  "n", "o", "p", "q", "r", "s", "t", "u", "v", "w", "x", "y", "z">>

ToLowerChar(c) ==
    IF \E n \in 1..26 : UpperLetters[n] = c
    THEN LowerLetters[CHOOSE n \in 1..26 : UpperLetters[n] = c]
    ELSE c

ToLower(s) == [n \in 1..Len(s) |-> ToLowerChar(s[n])]

Chars_none == <<"n", "o", "n", "e">>

Chars_tealorange == <<"t", "e", "a", "l", "o", "r", "a", "n", "g", "e">>

Chars_warmvintage == <<"w", "a", "r", "m", "v", "i", "n", "t", "a", "g", "e">>

DefaultSize == 17

DefaultOutput == <<"output.cube">>

\* Config.setDefaults: a zero field is an unset field
setDefaults(c) ==
    [Size           |-> IF c.Size <= 0 THEN DefaultSize ELSE c.Size,
     RedTint        |-> IF c.RedTint = Num(0) THEN Num(1050000) ELSE c.RedTint,
     BlueTint       |-> IF c.BlueTint = Num(0) THEN Num(950000) ELSE c.BlueTint,
     Output         |-> IF c.Output = <<>> THEN DefaultOutput ELSE c.Output,
     Look           |-> IF c.Look = <<>> THEN Chars_none ELSE c.Look,
     ExposureOffset |-> IF c.ExposureOffset = Num(0) THEN Num(One) ELSE c.ExposureOffset]

\* the value appleLogToLinear clips: x*exposureOffset
Exposed(x, exposureOffset) == FMul(x, exposureOffset)

appleLogToLinear(x, exposureOffset) ==
    LET v == FMin(Exposed(x, exposureOffset), Num(One))
    IN  Pow15(v)

\* the three rows of the matrix, before the clip
Matrix709(r, g, b) ==
    <<FSub(FSub(FMul(Num(1660000), r), FMul(Num(587000), g)), FMul(Num(73000), b)),
      FSub(FAdd(FMul(Num(-124000), r), FMul(Num(1132000), g)), FMul(Num(8000), b)),
      FAdd(FSub(FMul(Num(-18000), r), FMul(Num(100000), g)), FMul(Num(1118000), b))>>

\* if v < 0 { v = 0 }
ClipLow(v) == IF FLt(v, Num(0)) THEN Num(0) ELSE v

\* if v > 1 { v = 1 }
ClipHigh(v) == IF FGt(v, Num(One)) THEN Num(One) ELSE v

\* mutant: each channel is clipped as soon as it is computed, and the next
\* row reads the clipped value in place of the input it stands for
rec2020ToRec709_inPlace(r, g, b) ==
    LET r709 == ClipHigh(ClipLow(Matrix709(r, g, b)[1]))
        g709 == ClipHigh(ClipLow(Matrix709(r709, g, b)[2]))
        b709 == ClipHigh(ClipLow(Matrix709(r709, g709, b)[3]))
    IN  <<r709, g709, b709>>

rec2020ToRec709(r, g, b) ==
    LET m == Matrix709(r, g, b)
    IN  <<ClipHigh(ClipLow(m[1])), ClipHigh(ClipLow(m[2])), ClipHigh(ClipLow(m[3]))>>

\* mutant: the offset of the power branch is dropped
rec709OETF_noOffset(linear) ==
    IF FLt(linear, Num(18000)) THEN FMul(Num(4500000), linear)
    ELSE FMul(Num(1099000), Pow045(linear))

rec709OETF(linear) ==
    IF FLt(linear, Num(18000)) THEN FMul(Num(4500000), linear)
    ELSE FSub(FMul(Num(1099000), Pow045(linear)), Num(99000))

applyTealOrange(r, g, b) ==
    LET lum  == FAdd(FAdd(FMul(Num(212600), r), FMul(Num(715200), g)), FMul(Num(72200), b))
        Blend(orig, new) == FAdd(FMul(Num(700000), orig), FMul(Num(300000), new))
        rNew == IF FLt(lum, Num(500000)) THEN FMul(r, Num(950000)) ELSE FMul(r, Num(1100000))
        bNew == IF FLt(lum, Num(500000)) THEN FMul(b, Num(1100000)) ELSE FMul(b, Num(950000))
    IN  <<ClipHigh(Blend(r, rNew)), ClipHigh(Blend(g, g)), ClipHigh(Blend(b, bNew))>>

applyWarmVintage(r, g, b) ==
    LET r1 == FMul(r, Num(1050000))
        b1 == FMul(b, Num(950000))
        Gray(v) == FAdd(FMul(Num(900000), v), FMul(Num(100000), Num(500000)))
    IN  <<ClipHigh(Gray(r1)), ClipHigh(Gray(g)), ClipHigh(Gray(b1))>>

\* mutant: the look is compared as written, without strings.ToLower
applyLook_caseSensitive(cfg, enc) ==
    CASE cfg.Look = Chars_tealorange  -> applyTealOrange(enc[1], enc[2], enc[3])
      [] cfg.Look = Chars_warmvintage -> applyWarmVintage(enc[1], enc[2], enc[3])
      [] OTHER -> enc

\* mutant: the warm vintage look multiplies by the config's tints
applyLook_tinted(cfg, enc) ==
    LET Gray(v) == FAdd(FMul(Num(900000), v), FMul(Num(100000), Num(500000)))
    IN  CASE ToLower(cfg.Look) = Chars_tealorange  -> applyTealOrange(enc[1], enc[2], enc[3])
          [] ToLower(cfg.Look) = Chars_warmvintage ->
                <<ClipHigh(Gray(FMul(enc[1], cfg.RedTint))), ClipHigh(Gray(enc[2])),
                  ClipHigh(Gray(FMul(enc[3], cfg.BlueTint)))>>
          [] OTHER -> enc

\* the switch on strings.ToLower(cfg.Look)
applyLook(cfg, enc) ==
    CASE ToLower(cfg.Look) = Chars_tealorange  -> applyTealOrange(enc[1], enc[2], enc[3])
      [] ToLower(cfg.Look) = Chars_warmvintage -> applyWarmVintage(enc[1], enc[2], enc[3])
      [] OTHER -> enc

\* inR, inG, inB of grid coordinate (i, j, k)
gridInput(size, i, j, k) ==
    <<FDiv(FromInt(i), FromInt(size - 1)),
      FDiv(FromInt(j), FromInt(size - 1)),
      FDiv(FromInt(k), FromInt(size - 1))>>

\* steps 1 to 3 of the loop body: decode, gamut conversion, OETF
encode(cfg, i, j, k) ==
    LET in   == gridInput(cfg.Size, i, j, k)
        conv == rec2020ToRec709(appleLogToLinear(in[1], cfg.ExposureOffset),
                                appleLogToLinear(in[2], cfg.ExposureOffset),
                                appleLogToLinear(in[3], cfg.ExposureOffset))
    IN  <<rec709OETF(conv[1]), rec709OETF(conv[2]), rec709OETF(conv[3])>>

\* "%.6f %.6f %.6f\n": one line of the document (the newline is implied)
formatLine(t) == FormatFloat(t[1]) \o " " \o FormatFloat(t[2]) \o " " \o FormatFloat(t[3])

\* the body of the innermost loop: the line written for (i, j, k)
sampleLine(cfg, i, j, k) == formatLine(applyLook(cfg, encode(cfg, i, j, k)))

CommentLine == "# Generated Cinematic LUT for Apple Log to Rec.709 conversion"

headerLine(size) == "LUT_3D_SIZE " \o FormatInt(size)

\* mutant: the two inner loops are exchanged (the green index runs fastest)
loopK_greenFastest(cfg, i, j) == [n \in 1..cfg.Size |-> sampleLine(cfg, i, n - 1, j)]

\* for k := 0; k < size; k++: the lines the innermost loop writes for (i, j)
loopK(cfg, i, j) == [n \in 1..cfg.Size |-> sampleLine(cfg, i, j, n - 1)]

\* for j := 0; j < size; j++, from j on
RECURSIVE loopJ(_, _, _)
loopJ(cfg, i, j) ==
    IF j < cfg.Size THEN loopK(cfg, i, j) \o loopJ(cfg, i, j + 1) ELSE <<>>

\* for i := 0; i < size; i++, from i on
RECURSIVE loopI(_, _)
loopI(cfg, i) ==
    IF i < cfg.Size THEN loopJ(cfg, i, 0) \o loopI(cfg, i + 1) ELSE <<>>

\* the builder's content, as the sequence of its newline-terminated lines
generateLUT(cfg) == <<CommentLine, headerLine(cfg.Size)>> \o loopI(cfg, 0)

(***************************************************************************)
(* Files: a path is its sequence of elements, "/" first when absolute; a   *)
(* file's content is the sequence of its lines                             *)
(***************************************************************************)
configDir == <<"configs">>

outputDir == <<"output">>

IsAbs(path) == Len(path) > 0 /\ path[1] = "/"

Join(dir, path) == dir \o path

HasSuffix(name, suffix) == name.ext = suffix

\* the file name of processConfigFile: cfg.Output, under outputDir unless absolute
outFileName(cfg) == IF ~IsAbs(cfg.Output) THEN Join(outputDir, cfg.Output) ELSE cfg.Output

\* what os.WriteFile may do: write all of data; fail to open the file and
\* change nothing; or fail after the open has created or truncated the file,
\* which leaves a part of data (here none of it, or its first half)
WriteOutcomes ==
    {[err |-> FALSE, opened |-> TRUE,  kept |-> 2],
     [err |-> TRUE,  opened |-> FALSE, kept |-> 0],
     [err |-> TRUE,  opened |-> TRUE,  kept |-> 0],
     [err |-> TRUE,  opened |-> TRUE,  kept |-> 1]}

WriteFile(fs, name, data, w) ==
    IF w.opened THEN (name :> SubSeq(data, 1, (Len(data) * w.kept) \div 2)) @@ fs ELSE fs

\* processConfigFile(configPath, outputDir) on file f: its possible outcomes,
\* one per outcome of os.WriteFile; each is the files after it, the lines it
\* logs and the config it called generateLUT with
processConfigFile(configPath, f, fs) ==
    IF ~f.readable
    THEN {[files |-> fs,
           log   |-> <<[msg |-> "Error reading config file", path |-> configPath]>>,
           calls |-> <<>>]}
    ELSE IF ~f.json
    THEN {[files |-> fs,
           log   |-> <<[msg |-> "Error parsing JSON", path |-> configPath]>>,
           calls |-> <<>>]}
    ELSE LET cfg     == setDefaults(f.raw)
             lutData == generateLUT(cfg)
             name    == outFileName(cfg)
         IN  {[files |-> WriteFile(fs, name, lutData, w),
               log   |-> <<[msg  |-> IF w.err THEN "Error writing output file"
                                     ELSE "LUT successfully written",
                            path |-> name]>>,
               calls |-> <<[path |-> configPath, cfg |-> cfg]>>] : w \in WriteOutcomes}

\* mutant: the function also returns an error for a config it cannot read
walkFunc_returnsReadError(e) ==
    IF e.err \/ (~e.isDir /\ HasSuffix(e, ".json") /\ ~e.readable)
    THEN [ret |-> "err", process |-> FALSE]
    ELSE [ret |-> "nil", process |-> ~e.isDir /\ HasSuffix(e, ".json")]

\* the function main hands to filepath.Walk: what it returns for entry e, and
\* whether it calls processConfigFile
walkFunc(e) ==
    IF e.err THEN [ret |-> "err", process |-> FALSE]
    ELSE [ret |-> "nil", process |-> ~e.isDir /\ HasSuffix(e, ".json")]

(***************************************************************************)
(* main                                                                    *)
(***************************************************************************)
VARIABLES
    tree,    \* the entries below configDir, in the order Walk meets them
    pc,      \* "mkdir", "walk", "visit", "done" (main returned), "fatal" (log.Fatalf)
    pos,     \* the entry Walk meets next
    files,   \* the written files: path -> lines
    log,     \* the lines logged
    calls,   \* history: the calls of generateLUT, [path, cfg], in order
    gin,     \* rec2020ToRec709 alone: its arguments
    gout     \* rec2020ToRec709 alone: its result, <<>> before the call

vars == <<tree, pc, pos, files, log, calls, gin, gout>>

gvars == <<gin, gout>>

NoFiles == [p \in {} |-> <<>>]

pathOf(n) == Join(configDir, <<"f" \o FormatInt(n) \o tree[n].ext>>)

\* os.MkdirAll(outputDir) fails: log.Fatalf
MkdirAllFail ==
    /\ pc = "mkdir"
    /\ pc' = "fatal"
    /\ log' = Append(log, [msg |-> "Error creating output directory", path |-> outputDir])
    /\ UNCHANGED <<tree, pos, files, calls, gvars>>

MkdirAllOk ==
    /\ pc = "mkdir"
    /\ pc' = "walk"
    /\ UNCHANGED <<tree, pos, files, log, calls, gvars>>

\* Walk cannot stat or list configDir: walkFunc gets the error and returns it
WalkRootFail ==
    /\ pc = "walk"
    /\ pc' = "fatal"
    /\ log' = Append(log, [msg |-> "Error walking through config directory", path |-> configDir])
    /\ UNCHANGED <<tree, pos, files, calls, gvars>>

\* walkFunc on configDir itself: a directory, nothing to process
WalkRootOk ==
    /\ pc = "walk"
    /\ pc' = "visit"
    /\ UNCHANGED <<tree, pos, files, log, calls, gvars>>

\* walkFunc returns the error of an entry: Walk stops and returns it, log.Fatalf
VisitError ==
    /\ pc = "visit" /\ pos <= Len(tree)
    /\ walkFunc(tree[pos]).ret = "err"
    /\ pc' = "fatal"
    /\ log' = Append(log, [msg |-> "Error walking through config directory", path |-> pathOf(pos)])
    /\ UNCHANGED <<tree, pos, files, calls, gvars>>

\* a directory, or a file that is no .json file
VisitOther ==
    /\ pc = "visit" /\ pos <= Len(tree)
    /\ walkFunc(tree[pos]).ret = "nil" /\ ~walkFunc(tree[pos]).process
    /\ pos' = pos + 1
    /\ UNCHANGED <<tree, pc, files, log, calls, gvars>>

\* a .json file: log, processConfigFile, return nil
VisitConfig ==
    /\ pc = "visit" /\ pos <= Len(tree)
    /\ walkFunc(tree[pos]).ret = "nil" /\ walkFunc(tree[pos]).process
    /\ \E r \in processConfigFile(pathOf(pos), tree[pos], files) :
         /\ files' = r.files
         /\ log' = Append(log, [msg |-> "Processing config", path |-> pathOf(pos)]) \o r.log
         /\ calls' = calls \o r.calls
    /\ pos' = pos + 1
    /\ UNCHANGED <<tree, pc, gvars>>

\* Walk has met every entry and returns nil: main returns
WalkEnd ==
    /\ pc = "visit" /\ pos > Len(tree)
    /\ pc' = "done"
    /\ UNCHANGED <<tree, pos, files, log, calls, gvars>>

Next ==
    \/ MkdirAllFail
    \/ MkdirAllOk
    \/ WalkRootFail
    \/ WalkRootOk
    \/ VisitError
    \/ VisitOther
    \/ VisitConfig
    \/ WalkEnd

(***************************************************************************)
(* Inputs                                                                  *)
(***************************************************************************)
MaxEntries == 3

MaxGrid == 3

NoTint == Num(0)

Raw(size, look, exposure, output) ==
    [Size |-> size, RedTint |-> NoTint, BlueTint |-> NoTint, Output |-> output,
     Look |-> look, ExposureOffset |-> Num(exposure)]

ConfigFile(raw) ==
    [err |-> FALSE, isDir |-> FALSE, ext |-> ".json", readable |-> TRUE, json |-> TRUE, raw |-> raw]

NoRaw == Raw(0, <<>>, 0, <<>>)

\* an entry Walk cannot stat or list; a directory named like a config; a
\* file that is no config; a config that cannot be read; one that is no JSON
OtherEntries ==
    {[err |-> TRUE,  isDir |-> FALSE, ext |-> ".json", readable |-> FALSE, json |-> FALSE, raw |-> NoRaw],
     [err |-> FALSE, isDir |-> TRUE,  ext |-> ".json", readable |-> FALSE, json |-> FALSE, raw |-> NoRaw],
     [err |-> FALSE, isDir |-> FALSE, ext |-> ".txt",  readable |-> TRUE,  json |-> FALSE, raw |-> NoRaw],
     [err |-> FALSE, isDir |-> FALSE, ext |-> ".json", readable |-> FALSE, json |-> FALSE, raw |-> NoRaw],
     [err |-> FALSE, isDir |-> FALSE, ext |-> ".json", readable |-> TRUE,  json |-> FALSE, raw |-> NoRaw]}

\* the configs of a batch: two that leave "output" unset, one that names it
BatchConfigs ==
    {Raw(2, <<>>, 0, <<>>),
     Raw(2, <<"t", "e", "a", "l", "O", "r", "a", "n", "g", "e">>, 0, <<>>),
     Raw(2, <<"w", "a", "r", "m", "V", "i", "n", "t", "a", "g", "e">>, 0, <<"warm.cube">>)}

BatchEntries == OtherEntries \cup {ConfigFile(raw) : raw \in BatchConfigs}

TreesOf(entries, n) == UNION {[1..m -> entries] : m \in 0..n}

ToUpperChar(c) ==
    IF \E n \in 1..26 : LowerLetters[n] = c
    THEN UpperLetters[CHOOSE n \in 1..26 : LowerLetters[n] = c]
    ELSE c

\* name with the letters at the positions of `upper` in upper case
Cased(name, upper) ==
    [n \in 1..Len(name) |-> IF n \in upper THEN ToUpperChar(name[n]) ELSE name[n]]

Casings(name) ==
    {Cased(name, upper) : upper \in {{}, {5}, {1, 5}, {Len(name)}, 1..Len(name)}}

\* looks that are no casing of a recognised name: unset, "none", "sepia", a
\* recognised name with a space before, after or inside it, or cut short
OtherLooks ==
    {<<>>, Chars_none, Cased(Chars_none, {1}), <<"s", "e", "p", "i", "a">>,
     <<" ">> \o Chars_tealorange, Chars_tealorange \o <<" ">>,
     SubSeq(Chars_tealorange, 1, 4) \o <<" ">> \o SubSeq(Chars_tealorange, 5, 10),
     SubSeq(Chars_tealorange, 1, 9), Chars_warmvintage \o <<" ">>,
     SubSeq(Chars_warmvintage, 1, 4)}

Looks == OtherLooks \cup Casings(Chars_tealorange) \cup Casings(Chars_warmvintage)

MainLooks == {<<>>, Cased(Chars_tealorange, {5}), Cased(Chars_warmvintage, {5})}

\* exposure_offset: 0.5, 1.0, 2.0 and -1.0 (0 is "unset")
Exposures == {500000, 1000000, 2000000, -1000000}

\* red_tint and blue_tint, 0 for "unset"
Tints == {<<Num(1100000), Num(900000)>>, <<Num(1100000), NoTint>>, <<NoTint, Num(900000)>>}

Outputs == {<<"a.cube">>, <<"/", "luts", "abs.cube">>}

\* the configs of the single-file runs: every look, every exposure, every
\* tint, every output, on the grids of 1 to MaxGrid points per axis (an unset
\* size is the 17-point grid, beyond MaxGrid)
WideConfigs ==
    {Raw(size, look, 0, <<>>) : size \in 1..MaxGrid, look \in Looks}
    \cup {Raw(size, look, e, <<>>) : size \in 1..MaxGrid, look \in MainLooks, e \in Exposures}
    \cup {[Raw(size, look, 0, <<>>) EXCEPT !.RedTint = t[1], !.BlueTint = t[2]] :
            size \in 2..MaxGrid, look \in MainLooks, t \in Tints}
    \cup {Raw(2, look, 0, out) : look \in MainLooks, out \in Outputs}

WideEntries == OtherEntries \cup {ConfigFile(raw) : raw \in WideConfigs}

InitMain ==
    /\ pc = "mkdir"
    /\ pos = 1
    /\ files = NoFiles
    /\ log = <<>>
    /\ calls = <<>>
    /\ gin = <<>>
    /\ gout = <<>>

\* a batch: up to MaxEntries entries under configDir
Init == tree \in TreesOf(BatchEntries, MaxEntries) /\ InitMain

Spec == Init /\ [][Next]_vars

\* a run on one entry, drawn from the wide inputs
InitLUT == tree \in TreesOf(WideEntries, 1) /\ InitMain

SpecLUT == InitLUT /\ [][Next]_vars

(***************************************************************************)
(* rec2020ToRec709 alone, on linear triples from -0.5 to GamutTop quarters  *)
(***************************************************************************)
GamutTop == 6

GamutInputs == {Num(q * (One \div 4)) : q \in -2..GamutTop}

InitGamut ==
    /\ gin \in GamutInputs \X GamutInputs \X GamutInputs
    /\ gout = <<>>
    /\ tree = <<>> /\ pc = "gamut" /\ pos = 1 /\ files = NoFiles /\ log = <<>> /\ calls = <<>>

ApplyGamut ==
    /\ pc = "gamut" /\ gout = <<>>
    /\ gout' = rec2020ToRec709(gin[1], gin[2], gin[3])
    /\ UNCHANGED <<tree, pc, pos, files, log, calls, gin>>

NextGamut == ApplyGamut

SpecGamut == InitGamut /\ [][NextGamut]_vars
(***************************************************************************)
(* Properties                                                              *)
(***************************************************************************)
LastLog == log[Len(log)]

\* the last thing logged is the success of a write
LastWritten == Len(log) > 0 /\ LastLog.msg = "LUT successfully written"

\* the config of the last call of generateLUT, and the file written from it
LastCfg == calls[Len(calls)].cfg

LastDoc == files[LastLog.path]

Grid(size) == 0..(size - 1)

\* C1: for a config with size >= 2 the document is the comment line, the line
\* "LUT_3D_SIZE <size>" and exactly size^3 data lines; data line n (from 0) is
\* the sample of the one coordinate (i, j, k) with n = i*size^2 + j*size + k
C1_GridOrder ==
    (LastWritten /\ LastCfg.Size >= 2) =>
        LET size == LastCfg.Size
        IN  /\ Len(LastDoc) = 2 + size * size * size
            /\ LastDoc[1] = CommentLine
            /\ LastDoc[2] = "LUT_3D_SIZE " \o FormatInt(size)
            /\ \A i \in Grid(size), j \in Grid(size), k \in Grid(size) :
                 LastDoc[3 + i * size * size + j * size + k] = sampleLine(LastCfg, i, j, k)
            /\ \A n \in 0..(size * size * size - 1) :
                 Cardinality({c \in Grid(size) \X Grid(size) \X Grid(size) :
                                n = c[1] * size * size + c[2] * size + c[3]}) = 1

\* a 3x3x3 grid was generated and written, with lines that differ along blue
C1_Witness ==
    /\ LastWritten /\ pc = "done" /\ LastCfg.Size = 3
    /\ LastDoc[3] # LastDoc[4]

FailureMsgs == {"Error reading config file", "Error parsing JSON", "Error writing output file"}

\* this step logs the failure of a read, a parse or a write
StepFailed == Len(log') > Len(log) /\ log'[Len(log')].msg \in FailureMsgs

\* this step leaves every file as it was, but for the file of a failed write,
\* which may be left holding less than the whole LUT
OnlyPartial ==
    \/ files' = files
    \/ /\ log'[Len(log')].msg = "Error writing output file"
       /\ \E name \in DOMAIN files' :
            /\ name = log'[Len(log')].path
            /\ \A other \in (DOMAIN files' \cup DOMAIN files) \ {name} :
                 other \in DOMAIN files /\ other \in DOMAIN files' /\ files'[other] = files[other]
            /\ LET size == calls'[Len(calls')].cfg.Size
               IN  Len(files'[name]) < 2 + size * size * size

ConfigEntries == {n \in 1..Len(tree) : ~tree[n].err /\ ~tree[n].isDir /\ tree[n].ext = ".json"}

Processed(n) == \E m \in 1..Len(log) : log[m] = [msg |-> "Processing config", path |-> pathOf(n)]

\* the run has not stopped at a config file
NotStoppedAtConfig ==
    (pc = "fatal" /\ LastLog.path # outputDir /\ LastLog.path # configDir) => pos \notin ConfigEntries

\* every config file of the tree was handed to processConfigFile
AllProcessed == pc = "done" => \A n \in ConfigEntries : Processed(n)

\* C2 as stated: a step that fails to read, parse or write writes nothing and
\* the walk goes on to the next entry; the run never stops at a config file
\* and ends with every config file processed
C2_Original ==
    [][/\ StepFailed => (files' = files /\ pc' = "visit" /\ pos' = pos + 1)
       /\ NotStoppedAtConfig' /\ AllProcessed']_vars

\* C2, amended: a step that fails to read or parse writes nothing, one that
\* fails to write leaves at most an incomplete file at its own destination;
\* the walk goes on to the next entry; the run never stops at a config file
\* and ends with every config file processed
C2_Isolation ==
    [][/\ StepFailed => (OnlyPartial /\ pc' = "visit" /\ pos' = pos + 1)
       /\ NotStoppedAtConfig' /\ AllProcessed']_vars

\* a failed config between two written ones, in a run that returned
C2_Witness ==
    /\ pc = "done" /\ Len(tree) = 3
    /\ \E a, b, c \in 1..Len(log) :
         /\ a < b /\ b < c
         /\ log[a].msg = "LUT successfully written"
         /\ log[b].msg \in FailureMsgs
         /\ log[c].msg = "LUT successfully written"

\* C3 as stated: the run aborts only when the output directory cannot be
\* created or the input directory itself cannot be traversed
C3_OnlyTwoFatalCases ==
    pc = "fatal" =>
        \/ LastLog = [msg |-> "Error creating output directory", path |-> outputDir]
        \/ LastLog = [msg |-> "Error walking through config directory", path |-> configDir]

Written(n) == log[n].msg = "LUT successfully written"

\* C4 as stated: when every config file was read, parsed and written, there
\* are as many output files as config files and each holds its config's LUT
C4_OneOutputPerConfig ==
    (/\ pc = "done"
     /\ Len(calls) = Cardinality(ConfigEntries)
     /\ Cardinality({n \in 1..Len(log) : Written(n)}) = Len(calls)) =>
        /\ Cardinality(DOMAIN files) = Len(calls)
        /\ \A n \in 1..Len(calls) :
             files[outFileName(calls[n].cfg)] = generateLUT(calls[n].cfg)

\* s is name with some of its letters in upper case
IsCasingOf(s, name) ==
    /\ Len(s) = Len(name)
    /\ \A n \in 1..Len(name) : s[n] = name[n] \/ s[n] = ToUpperChar(name[n])

\* the grade the look names
GradeOf(look, enc) ==
    IF IsCasingOf(look, Chars_tealorange) THEN applyTealOrange(enc[1], enc[2], enc[3])
    ELSE IF IsCasingOf(look, Chars_warmvintage) THEN applyWarmVintage(enc[1], enc[2], enc[3])
    ELSE enc

\* C5: every data line is the teal-orange grade of the encoded sample when the
\* look is a casing of "tealorange", its warm-vintage grade when the look is a
\* casing of "warmvintage", and the encoded sample itself for any other look
C5_LookSelection ==
    LastWritten =>
        LET size == LastCfg.Size
        IN  \A i \in Grid(size), j \in Grid(size), k \in Grid(size) :
              LastDoc[3 + i * size * size + j * size + k]
                = formatLine(GradeOf(LastCfg.Look, encode(LastCfg, i, j, k)))

\* "tealOrange" was graded: a line differs from the encoded sample
C5_Witness ==
    /\ LastWritten
    /\ LastCfg.Look = Cased(Chars_tealorange, {5})
    /\ LastCfg.Size = 2
    /\ LastDoc[4] # formatLine(encode(LastCfg, 0, 0, 1))

\* C6: size 2, look "none", exposure 1.0 gives "LUT_3D_SIZE 2", 8 data lines,
\* black first and white last; each stage maps 0 to 0 and 1 to 1
C6_EndToEnd ==
    (/\ LastWritten
     /\ LastCfg.Size = 2 /\ LastCfg.Look = Chars_none /\ LastCfg.ExposureOffset = Num(One)) =>
        /\ LastDoc[2] = "LUT_3D_SIZE 2"
        /\ Len(LastDoc) = 2 + 8
        /\ LastDoc[3] = "0.000000 0.000000 0.000000"
        /\ LastDoc[10] = "1.000000 1.000000 1.000000"
        /\ \A v \in {Num(0), Num(One)} :
             /\ appleLogToLinear(v, LastCfg.ExposureOffset) = v
             /\ rec2020ToRec709(v, v, v) = <<v, v, v>>
             /\ rec709OETF(v) = v
             /\ applyLook(LastCfg, <<v, v, v>>) = <<v, v, v>>

C6_Witness ==
    /\ LastWritten /\ pc = "done"
    /\ LastCfg.Size = 2 /\ LastCfg.Look = Chars_none /\ LastCfg.ExposureOffset = Num(One)
    /\ tree[1].raw.Look = <<>> /\ tree[1].raw.ExposureOffset = Num(0)

\* the config file behind the last call of generateLUT, its tints unset
LastUntinted ==
    LET n == CHOOSE m \in 1..Len(tree) : pathOf(m) = calls[Len(calls)].path
    IN  setDefaults([tree[n].raw EXCEPT !.RedTint = NoTint, !.BlueTint = NoTint])

C8_SizeAtLeastTwo ==
    \A n \in 1..Len(calls) : calls[n].cfg.Size >= 2 /\ FromInt(calls[n].cfg.Size - 1) # Num(0)

InUnit(v) == ~v.nan /\ 0 <= v.u /\ v.u <= One

\* the clamp of v to [0, 1]
Clamp01(v) == IF v.u < 0 THEN Num(0) ELSE IF v.u > One THEN Num(One) ELSE v

\* the matrix in thousandths, on millionths: each row from the three inputs
Rows709(r, g, b) ==
    <<(1660 * (r.u \div 10) - 587 * (g.u \div 10) - 73 * (b.u \div 10)) \div 100,
      (-124 * (r.u \div 10) + 1132 * (g.u \div 10) - 8 * (b.u \div 10)) \div 100,
      (-18 * (r.u \div 10) - 100 * (g.u \div 10) + 1118 * (b.u \div 10)) \div 100>>

\* C9: every channel rec2020ToRec709 returns lies in [0, 1] and is the clamp
\* of its own matrix row on the three inputs
C9_GamutClamp ==
    gout # <<>> =>
        \A c \in 1..3 :
            /\ InUnit(gout[c])
            /\ gout[c] = Clamp01(Num(Rows709(gin[1], gin[2], gin[3])[c]))

\* a triple whose red row is above 1 and whose green row is below 0
C9_Witness ==
    /\ gout # <<>>
    /\ Rows709(gin[1], gin[2], gin[3])[1] > One
    /\ Rows709(gin[1], gin[2], gin[3])[2] < 0
    /\ gout[1] = Num(One) /\ gout[2] = Num(0)

\* C10 as stated: for every config generateLUT is called with (here those
\* with size >= 2) and every grid index, x*exposureOffset is non-negative and
\* the clipped value lies in [0, 1]
C10_DecodeInputNonNegative ==
    \A n \in 1..Len(calls) :
        LET cfg == calls[n].cfg
        IN  cfg.Size >= 2 =>
              \A i \in Grid(cfg.Size) :
                 LET x == FDiv(FromInt(i), FromInt(cfg.Size - 1))
                     v == Exposed(x, cfg.ExposureOffset)
                 IN  ~v.nan /\ v.u >= 0 /\ InUnit(FMin(v, Num(One)))
====
